---- MODULE Spec2Model ----
(***************************************************************************)
(* Model of the message-relay bot of src/app/handlers_analyzer.py (the     *)
(* live module, lines 670-1144, and the text segmenter kept at lines       *)
(* 617-668) and src/generate.py.                                           *)
(*                                                                         *)
(* Time.  The code reads the clock only as `now - stamp < K`, so a stamp   *)
(* is kept as its age now - stamp, in seconds; Tick adds the elapsed time  *)
(* to every age.  An age saturates at the K the code compares it with:     *)
(* beyond it the comparison has the same answer.                           *)
(*                                                                         *)
(* Text.  A text is known by its fingerprint (hashlib.md5 of the text,     *)
(* taken as injective) and its length TextLen; a message sent to the       *)
(* transport is known by its tag and its length in characters.             *)
(***************************************************************************)
EXTENDS Integers, Sequences, FiniteSets, TLC

\* ---------------------------------------------------------------- bounds
NumUsers == 2
NumSlots == 2
NumTexts == 2
MaxKeys == 52

MaxLen == 6
MaxChunk == 4

MaxPieces == 4
MaxField == 4
MaxSentences == 6
MaxParagraphs == 3

MaxSegments == 2

MaxWindows == 3

\* ------------------------------------------------------ program constants
WINDOW == 120
RATE_LIMIT == 3
COOLDOWN == 300
CACHE_LIMIT == 50
LONG_TEXT == 4000
TG_LIMIT == 4096
FIELD_LIMIT == 500
MIN_RECOGNIZED == 5
SHORT_AUDIO == 45000
CHUNK_LENGTH == 30000
MIN_CHUNK == 1000
MAX_SILENCE_CHUNKS == 20

Users == 1..NumUsers
Slots == 1..NumSlots
Texts == 1..NumTexts
TickSteps == {60, 119}

VARIABLES
    user_requests,   \* user -> ages of the recorded requests, oldest first
    last_ai_error,   \* user -> age of the last AI failure (users that had one)
    text_cache,      \* insertion-ordered dict: sequence of [key, val]
    pc,              \* slot -> where the handler running in the slot is suspended
    kind,            \* slot -> "text" | "voice" | "none"
    user_id,         \* slot -> message.from_user.id
    text,            \* slot -> the text being analysed (0: none yet)
    analysis,        \* slot -> the handler's local `analysis`
    sent,            \* slot -> the message last handed to message.answer
    files,           \* slot -> the temporary files its handlers created and left
    sp_text,         \* split_long_text: argument text
    sp_max,          \* split_long_text: argument max_length
    sp_chunks,       \* split_long_text: returned list
    sp_done,         \* split_long_text has returned
    pr_in,           \* parse_analysis_response / simple_text_analysis: argument
    pr_op,           \* which of the two was called ("none" before the call)
    pr_raw,          \* the string handed to the parser
    pr_out,          \* the pair the parser returned
    g_pc,            \* ai_generate: where the coroutine is
    g_attempt,       \* ai_generate: the loop variable attempt
    g_log,           \* ai_generate: the completion calls made, [model, outcome]
    g_wait,          \* ai_generate: seconds of the asyncio.sleep in progress
    al_len,          \* analyze_long_text: len(text)
    al_pc,           \* analyze_long_text: where the coroutine is
    al_calls,        \* analyze_long_text: the calls awaited so far, in order
    al_analyses,     \* analyze_long_text: the list analyses
    sa_duration,     \* split_audio_on_silence: len(audio), in ms
    sa_silence,      \* split_audio_on_silence: what split_on_silence returned
    sa_chunks,       \* split_audio_on_silence: lengths of the chunks returned
    sa_done,         \* split_audio_on_silence has returned
    ra_chunks,       \* recognize_long_audio: how each chunk fares, in order
    ra_split,        \* recognize_long_audio: split_audio_on_silence returned
    ra_whole,        \* recognize_long_audio: how the whole file fares
    ra_pc,           \* recognize_long_audio: "idle" | "returned"
    ra_out           \* recognize_long_audio: what the call did and returned

vars == <<user_requests, last_ai_error, text_cache, pc, kind, user_id, text,
          analysis, sent, files, sp_text, sp_max, sp_chunks, sp_done,
          pr_in, pr_op, pr_raw, pr_out, g_pc, g_attempt, g_log, g_wait,
          al_len, al_pc, al_calls, al_analyses,
          sa_duration, sa_silence, sa_chunks, sa_done,
          ra_chunks, ra_split, ra_whole, ra_pc, ra_out>>

rate_vars == <<user_requests, last_ai_error>>
bot_vars == <<user_requests, last_ai_error, text_cache, pc, kind, user_id, text,
              analysis, sent, files>>
split_vars == <<sp_text, sp_max, sp_chunks, sp_done>>
parse_vars == <<pr_in, pr_op, pr_raw, pr_out>>
gen_vars == <<g_pc, g_attempt, g_log, g_wait>>
long_vars == <<al_len, al_pc, al_calls, al_analyses>>
audio_vars == <<sa_duration, sa_silence, sa_chunks, sa_done,
                ra_chunks, ra_split, ra_whole, ra_pc, ra_out>>
pure_vars == <<split_vars, parse_vars, gen_vars, long_vars, audio_vars>>

\* ------------------------------------------------------------ the clock
Sat(a, k) == IF a > k THEN k ELSE a

Aged(log, d) == [i \in 1..Len(log) |-> Sat(log[i] + d, WINDOW)]

\* ------------------------------------------------------- the rate limiter
\* a window that still holds an entry exactly WINDOW seconds old
Pruned_inclusive(log) == SelectSeq(log, LAMBDA age : age <= WINDOW)

Pruned(log) == SelectSeq(log, LAMBDA age : age < WINDOW)

\* now - last_ai_error.get(user_id, 0): with no failure recorded it is the
\* clock itself, seconds since the epoch, which is beyond every window
\* the default stamp 0 read as "failed just now"
ErrorAge_default_now(u) == IF u \in DOMAIN last_ai_error THEN last_ai_error[u] ELSE 0

ErrorAge(u) == IF u \in DOMAIN last_ai_error THEN last_ai_error[u] ELSE COOLDOWN

\* a gate that lets a request through while RATE_LIMIT are in the window
can_make_ai_request_late(u) ==
    IF Len(Pruned(user_requests[u])) > RATE_LIMIT THEN FALSE
    ELSE IF ErrorAge(u) < COOLDOWN THEN FALSE
    ELSE TRUE

can_make_ai_request(u) ==
    IF Len(Pruned(user_requests[u])) >= RATE_LIMIT THEN FALSE
    ELSE IF ErrorAge(u) < COOLDOWN THEN FALSE
    ELSE TRUE

add_request(log) == Append(log, 0)

\* a failure that starts the cooldown of everybody
mark_ai_error_all(err, u) == [x \in Users |-> 0]

mark_ai_error(err, u) == [x \in DOMAIN err \cup {u} |-> IF x = u THEN 0 ELSE err[x]]

\* --------------------------------------------------------------- the cache
CacheKeys(c) == {c[i].key : i \in 1..Len(c)}

CacheGet(c, k) == LET i == CHOOSE j \in 1..Len(c) : c[j].key = k IN c[i].val

\* a store that keeps the entry a key already has
CacheSet_keep(c, k, v) ==
    IF k \in CacheKeys(c) THEN c ELSE Append(c, [key |-> k, val |-> v])

\* text_cache[text_hash] = analysis: a new key goes last, a known key keeps its place
CacheSet(c, k, v) ==
    IF k \in CacheKeys(c)
    THEN [i \in 1..Len(c) |-> IF c[i].key = k THEN [key |-> k, val |-> v] ELSE c[i]]
    ELSE Append(c, [key |-> k, val |-> v])

\* an eviction that drops the entry inserted last
EvictOldest_newest(c) == IF Len(c) > CACHE_LIMIT THEN SubSeq(c, 1, Len(c) - 1) ELSE c

\* if len(text_cache) > 50: text_cache.pop(next(iter(text_cache)))
EvictOldest(c) == IF Len(c) > CACHE_LIMIT THEN Tail(c) ELSE c

VoiceCachePut(c, k, v) == EvictOldest(CacheSet(c, k, v))

\* a handler that parses the result and forgets to store it
TextCachePut_skip(c, k, v) == c

TextCachePut(c, k, v) == CacheSet(c, k, v)

\* -------------------------------------------------- texts and AI responses
\* len(text) of the sample texts: short ones, and one beyond the long-text
\* threshold that an inbound message can still carry
TextLen(t) == CASE t = 2 -> 4090 [] OTHER -> 50

\* what the completion client returns: the lengths of the two labelled fields
Responses == {[idea |-> 40, answer |-> 60], [idea |-> 700, answer |-> 0]}

NoAnalysis == [main_idea |-> 0, answer |-> 0]

\* the closing steps of the parser: default for an empty field, cut at 500
ParseField(n, default) ==
    IF n = 0 THEN default
    ELSE IF n > FIELD_LIMIT THEN (FIELD_LIMIT - 3) + 3
    ELSE n

parse_analysis_response(r) ==
    [main_idea |-> ParseField(r.idea, 26), answer |-> ParseField(r.answer, 30)]

\* the labelled string built without the network (at most 3 sentences)
simple_text_analysis(t) ==
    [idea |-> IF TextLen(t) > 200 THEN 200 + 3 ELSE TextLen(t), answer |-> 58]

\* ------------------------------------------------ messages to the transport
Msg(tag, n) == [tag |-> tag, len |-> n]

Digits(n) == IF n < 10 THEN 1 ELSE IF n < 100 THEN 2 ELSE IF n < 1000 THEN 3 ELSE 4

TextAck(t) ==
    IF TextLen(t) > LONG_TEXT THEN Msg("ack", 76 + Digits(TextLen(t)))
    ELSE Msg("ack", 21)

EchoMsg(t) == Msg("echo", 34 + Digits(TextLen(t)) + TextLen(t))

IdeaMsg(a) == Msg("main_idea", 22 + a.main_idea)

HeaderMsg == Msg("header", 33)

AnswerMsg(a) == Msg("answer", a.answer)

NoMsg == Msg("none", 0)

Say(s, m) == sent' = [sent EXCEPT ![s] = m]

\* ------------------------------------------------ recordings, temp files
TempFile(k, i) == [kind |-> k, i |-> i]

\* how the recognition of one segment can end: a text, an empty text,
\* sr.UnknownValueError, another exception, and chunk.export raising
SegmentOutcomes == {"text", "empty", "unknown", "error", "export"}

\* how the transcoding can end: a WAV file, no ffmpeg binary, a non-zero
\* return code, subprocess.TimeoutExpired, and no or an empty WAV file
TranscodeOutcomes == {"ok", "no_ffmpeg", "nonzero", "timeout", "empty_wav"}

\* the diagnostic reply of each failure
TranscodeDiagnostic(outcome) ==
    CASE outcome = "no_ffmpeg" -> Msg("no_ffmpeg", 18)
      [] outcome = "nonzero" -> Msg("convert_failed", 26)
      [] outcome = "timeout" -> Msg("convert_timeout", 27)
      [] OTHER -> Msg("not_converted", 33)

\* a recording: how ffmpeg ends on it, how each segment fares in
\* recognize_long_audio (no segment: split_audio_on_silence raised), and whether
\* the recognition of the whole file gives a text
Audio(transcoded, segments, whole) ==
    [transcoded |-> transcoded, segments |-> segments, whole |-> whole]

GoodAudio == Audio("ok", <<"text">>, TRUE)

BadAudio == Audio("nonzero", <<>>, FALSE)

PlainAudio == {GoodAudio, BadAudio}

\* a recording that is recognized, and one for each failure of the transcoding
TranscodeAudio ==
    {GoodAudio} \cup {Audio(o, <<>>, FALSE) : o \in TranscodeOutcomes \ {"ok"}}

AllAudio ==
    {BadAudio} \cup
    {Audio("ok", segs, whole) :
        segs \in UNION {[1..n -> SegmentOutcomes] : n \in 0..MaxSegments},
        whole \in BOOLEAN}

RECURSIVE RecognizeSegments(_, _, _)
\* the loop over the chunks: segment i is created, exported, recognized and
\* unlinked in the finally clause; export is called before the try
RecognizeSegments(outs, i, got) ==
    IF outs = <<>> THEN [raised |-> FALSE, recognized |-> got, left |-> {}]
    ELSE IF Head(outs) = "export"
    THEN [raised |-> TRUE, recognized |-> FALSE, left |-> {TempFile("segment", i)}]
    ELSE RecognizeSegments(Tail(outs), i + 1, got \/ Head(outs) = "text")

\* recognize_long_audio: the text is not empty, and the files it left
recognize_long_audio(audio) ==
    LET r == RecognizeSegments(audio.segments, 0, FALSE) IN
    IF audio.segments = <<>> \/ r.raised
    THEN [recognized |-> audio.whole, left |-> r.left]
    ELSE [recognized |-> r.recognized, left |-> {}]

\* ------------------------------------------------------------ the handlers
\* a gate that records the request before it decides
Gate_records_rejected(s, u, k, ack) ==
    /\ pc[s] = "idle"
    /\ kind' = [kind EXCEPT ![s] = k]
    /\ user_id' = [user_id EXCEPT ![s] = u]
    /\ IF can_make_ai_request(u)
       THEN /\ user_requests' =
                 [user_requests EXCEPT ![u] = add_request(Pruned(@))]
            /\ pc' = [pc EXCEPT ![s] = "ack"]
            /\ Say(s, ack)
       ELSE /\ user_requests' =
                 [user_requests EXCEPT ![u] = add_request(Pruned(@))]
            /\ pc' = [pc EXCEPT ![s] = "rejected"]
            /\ Say(s, Msg("too_many", 47))
    /\ UNCHANGED <<last_ai_error, text_cache, analysis, files, pure_vars>>

\* can_make_ai_request / add_request and the first reply: no await in between
Gate(s, u, k, ack) ==
    /\ pc[s] = "idle"
    /\ kind' = [kind EXCEPT ![s] = k]
    /\ user_id' = [user_id EXCEPT ![s] = u]
    /\ IF can_make_ai_request(u)
       THEN /\ user_requests' =
                 [user_requests EXCEPT ![u] = add_request(Pruned(@))]
            /\ pc' = [pc EXCEPT ![s] = "ack"]
            /\ Say(s, ack)
       ELSE /\ user_requests' = [user_requests EXCEPT ![u] = Pruned(@)]
            /\ pc' = [pc EXCEPT ![s] = "rejected"]
            /\ Say(s, Msg("too_many", 47))
    /\ UNCHANGED <<last_ai_error, text_cache, analysis, files, pure_vars>>

\* a text handler that looks into the cache before the gate
TextStart_cache_first(s, u, t) ==
    /\ TextLen(t) <= TG_LIMIT
    /\ IF t \in CacheKeys(text_cache)
       THEN /\ pc[s] = "idle"
            /\ kind' = [kind EXCEPT ![s] = "text"]
            /\ user_id' = [user_id EXCEPT ![s] = u]
            /\ pc' = [pc EXCEPT ![s] = "ack"]
            /\ Say(s, TextAck(t))
            /\ UNCHANGED <<user_requests, last_ai_error, text_cache, analysis,
                           files, pure_vars>>
       ELSE Gate(s, u, "text", TextAck(t))
    /\ text' = [text EXCEPT ![s] = t]

TextStart(s, u, t) ==
    /\ TextLen(t) <= TG_LIMIT
    /\ Gate(s, u, "text", TextAck(t))
    /\ text' = [text EXCEPT ![s] = t]

VoiceStart(s, u) ==
    /\ Gate(s, u, "voice", Msg("ack", 36))
    /\ UNCHANGED text

\* the two NamedTemporaryFile(delete=False) were made and download_file
\* returned, with or without data
VoiceDownload(s, ok) ==
    /\ pc[s] = "ack" /\ kind[s] = "voice"
    /\ files' = [files EXCEPT ![s] = @ \cup {TempFile("ogg", 0), TempFile("wav", 0)}]
    /\ IF ok
       THEN /\ pc' = [pc EXCEPT ![s] = "downloaded"]
            /\ UNCHANGED sent
       ELSE /\ pc' = [pc EXCEPT ![s] = "done"]
            /\ Say(s, Msg("not_downloaded", 40))
    /\ UNCHANGED <<rate_vars, text_cache, kind, user_id, text, analysis, pure_vars>>

\* a handler that reports what ffmpeg did and recognizes the recording anyway
VoiceTranscribe_anyway(s, t, audio) ==
    /\ pc[s] = "downloaded"
    /\ LET heard == recognize_long_audio(audio)
       IN /\ files' = [files EXCEPT ![s] = @ \cup heard.left]
          /\ pc' = [pc EXCEPT ![s] = "echoed"]
          /\ text' = [text EXCEPT ![s] = t]
          /\ IF audio.transcoded # "ok"
             THEN Say(s, TranscodeDiagnostic(audio.transcoded))
             ELSE Say(s, EchoMsg(t))
    /\ UNCHANGED <<rate_vars, text_cache, kind, user_id, analysis,
                   pure_vars>>

\* ffmpeg (subprocess.run, blocking) and recognize_long_audio (no await inside)
\* on a recording that says the text t
VoiceTranscribe(s, t, audio) ==
    /\ pc[s] = "downloaded"
    /\ LET heard == IF audio.transcoded = "ok" THEN recognize_long_audio(audio)
                    ELSE [recognized |-> FALSE, left |-> {}]
       IN /\ files' = [files EXCEPT ![s] = @ \cup heard.left]
          /\ IF audio.transcoded # "ok"
             THEN /\ pc' = [pc EXCEPT ![s] = "done"]
                  /\ Say(s, TranscodeDiagnostic(audio.transcoded))
                  /\ UNCHANGED text
             ELSE IF ~heard.recognized \/ TextLen(t) < MIN_RECOGNIZED
             THEN /\ pc' = [pc EXCEPT ![s] = "done"]
                  /\ Say(s, Msg("not_recognized", 40))
                  /\ UNCHANGED text
             ELSE /\ pc' = [pc EXCEPT ![s] = "echoed"]
                  /\ text' = [text EXCEPT ![s] = t]
                  /\ Say(s, EchoMsg(t))
    /\ UNCHANGED <<rate_vars, text_cache, kind, user_id, analysis,
                   pure_vars>>

\* if text_hash in text_cache: ... else: await the completion client
CacheLookup(s) ==
    /\ \/ pc[s] = "ack" /\ kind[s] = "text"
       \/ pc[s] = "echoed"
    /\ IF text[s] \in CacheKeys(text_cache)
       THEN /\ analysis' = [analysis EXCEPT ![s] = CacheGet(text_cache, text[s])]
            /\ pc' = [pc EXCEPT ![s] = "notice"]
            /\ Say(s, Msg("cached", 35))
       ELSE /\ IF kind[s] = "voice" /\ TextLen(text[s]) > LONG_TEXT
               THEN /\ pc' = [pc EXCEPT ![s] = "long_notice"]
                    /\ Say(s, Msg("long", 40))
               ELSE /\ pc' = [pc EXCEPT ![s] = "ai"]
                    /\ UNCHANGED sent
            /\ UNCHANGED analysis
    /\ UNCHANGED <<rate_vars, text_cache, kind, user_id, text, files, pure_vars>>

\* voice, long text: the notice was delivered, analyze_long_text is awaited
LongNoticeSent(s) ==
    /\ pc[s] = "long_notice"
    /\ pc' = [pc EXCEPT ![s] = "ai"]
    /\ UNCHANGED <<rate_vars, text_cache, kind, user_id, text, analysis, sent,
                   files, pure_vars>>

\* the completion client returned r: parse, store, send the main idea
AIReturn(s, r) ==
    /\ pc[s] = "ai"
    /\ LET a == parse_analysis_response(r) IN
       /\ analysis' = [analysis EXCEPT ![s] = a]
       /\ text_cache' = IF kind[s] = "voice"
                        THEN VoiceCachePut(text_cache, text[s], a)
                        ELSE TextCachePut(text_cache, text[s], a)
       /\ Say(s, IdeaMsg(a))
    /\ pc' = [pc EXCEPT ![s] = "idea_sent"]
    /\ UNCHANGED <<rate_vars, kind, user_id, text, files, pure_vars>>

\* a handler that stores the analysis of the fallback
AIFail_stores(s) ==
    /\ pc[s] = "ai"
    /\ last_ai_error' = mark_ai_error(last_ai_error, user_id[s])
    /\ analysis' = [analysis EXCEPT ![s] =
                       parse_analysis_response(simple_text_analysis(text[s]))]
    /\ text_cache' = CacheSet(text_cache, text[s],
                              parse_analysis_response(simple_text_analysis(text[s])))
    /\ Say(s, Msg("local", 54))
    /\ pc' = [pc EXCEPT ![s] = "notice"]
    /\ UNCHANGED <<user_requests, kind, user_id, text, files, pure_vars>>

\* the completion client raised: cooldown, local analysis, notice
AIFail(s) ==
    /\ pc[s] = "ai"
    /\ last_ai_error' = mark_ai_error(last_ai_error, user_id[s])
    /\ analysis' = [analysis EXCEPT ![s] =
                       parse_analysis_response(simple_text_analysis(text[s]))]
    /\ Say(s, Msg("local", 54))
    /\ pc' = [pc EXCEPT ![s] = "notice"]
    /\ UNCHANGED <<user_requests, text_cache, kind, user_id, text, files,
                   pure_vars>>

SendIdea(s) ==
    /\ pc[s] = "notice"
    /\ Say(s, IdeaMsg(analysis[s]))
    /\ pc' = [pc EXCEPT ![s] = "idea_sent"]
    /\ UNCHANGED <<rate_vars, text_cache, kind, user_id, text, analysis, files, pure_vars>>

SendHeader(s) ==
    /\ pc[s] = "idea_sent"
    /\ Say(s, HeaderMsg)
    /\ pc' = [pc EXCEPT ![s] = "header_sent"]
    /\ UNCHANGED <<rate_vars, text_cache, kind, user_id, text, analysis, files, pure_vars>>

SendAnswer(s) ==
    /\ pc[s] = "header_sent"
    /\ Say(s, AnswerMsg(analysis[s]))
    /\ pc' = [pc EXCEPT ![s] = "done"]
    /\ UNCHANGED <<rate_vars, text_cache, kind, user_id, text, analysis, files, pure_vars>>

\* the except clause of the handler's try statement: str(e) is looked up for
\* "429" / "rate", the cooldown is set when it is there, a diagnostic is sent
Caught(s, rate) ==
    /\ pc' = [pc EXCEPT ![s] = "done"]
    /\ IF rate
       THEN /\ last_ai_error' = mark_ai_error(last_ai_error, user_id[s])
            /\ Say(s, Msg("limits", 51))
       ELSE /\ UNCHANGED last_ai_error
            /\ Say(s, Msg("error", 40))

\* the message.answer being awaited raised: before the try statement and in its
\* except clause nothing catches it; the notice of the long text is sent in the
\* inner try, whose except clause is the one of the failed completion
AnswerRaises(s, rate) ==
    /\ pc[s] \in {"ack", "rejected", "echoed", "long_notice", "notice",
                  "idea_sent", "header_sent", "done"}
    /\ IF pc[s] \in {"ack", "rejected"} \/ sent[s].tag \in {"error", "limits"}
       THEN /\ pc' = [pc EXCEPT ![s] = "escaped"]
            /\ UNCHANGED <<last_ai_error, analysis, sent>>
       ELSE IF pc[s] = "long_notice"
       THEN /\ last_ai_error' = mark_ai_error(last_ai_error, user_id[s])
            /\ analysis' = [analysis EXCEPT ![s] =
                               parse_analysis_response(simple_text_analysis(text[s]))]
            /\ Say(s, Msg("local", 54))
            /\ pc' = [pc EXCEPT ![s] = "notice"]
       ELSE /\ Caught(s, rate)
            /\ UNCHANGED analysis
    /\ UNCHANGED <<user_requests, text_cache, kind, user_id, text, files,
                   pure_vars>>

\* download_file raised after the two temporary files were made
DownloadRaises(s, rate) ==
    /\ pc[s] = "ack" /\ kind[s] = "voice"
    /\ files' = [files EXCEPT ![s] = @ \cup {TempFile("ogg", 0), TempFile("wav", 0)}]
    /\ Caught(s, rate)
    /\ UNCHANGED <<user_requests, text_cache, kind, user_id, text, analysis,
                   pure_vars>>

\* subprocess.run raised something else than TimeoutExpired
TranscodeRaises(s, rate) ==
    /\ pc[s] = "downloaded"
    /\ Caught(s, rate)
    /\ UNCHANGED <<user_requests, text_cache, kind, user_id, text, analysis,
                   files, pure_vars>>

\* the awaited calls of the handlers in the slots SS raising
Faults(SS) ==
    \/ \E s \in SS, rate \in BOOLEAN : AnswerRaises(s, rate)
    \/ \E s \in SS, rate \in BOOLEAN : DownloadRaises(s, rate)
    \/ \E s \in SS, rate \in BOOLEAN : TranscodeRaises(s, rate)

\* the last await is over and the handler returned (the voice handler through
\* its finally clause); the slot is free for the next message
Finish(s) ==
    /\ pc[s] \in {"done", "rejected", "escaped"}
    /\ files' = [files EXCEPT ![s] = @ \ {TempFile("ogg", 0), TempFile("wav", 0)}]
    /\ pc' = [pc EXCEPT ![s] = "idle"]
    /\ kind' = [kind EXCEPT ![s] = "none"]
    /\ user_id' = [user_id EXCEPT ![s] = 0]
    /\ text' = [text EXCEPT ![s] = 0]
    /\ analysis' = [analysis EXCEPT ![s] = NoAnalysis]
    /\ sent' = [sent EXCEPT ![s] = NoMsg]
    /\ UNCHANGED <<rate_vars, text_cache, pure_vars>>

\* d seconds pass
Tick(d) ==
    /\ user_requests' = [u \in Users |-> Aged(user_requests[u], d)]
    /\ last_ai_error' = [u \in DOMAIN last_ai_error |-> Sat(last_ai_error[u] + d, COOLDOWN)]
    /\ UNCHANGED <<text_cache, pc, kind, user_id, text, analysis,
                   sent, files, pure_vars>>

InitBot ==
    /\ user_requests = [u \in Users |-> <<>>]
    /\ last_ai_error = <<>>
    /\ text_cache = <<>>
    /\ pc = [s \in Slots |-> "idle"]
    /\ kind = [s \in Slots |-> "none"]
    /\ user_id = [s \in Slots |-> 0]
    /\ text = [s \in Slots |-> 0]
    /\ analysis = [s \in Slots |-> NoAnalysis]
    /\ sent = [s \in Slots |-> NoMsg]
    /\ files = [s \in Slots |-> {}]

InitSplitIdle == sp_text = <<>> /\ sp_max = 0 /\ sp_chunks = <<>> /\ sp_done = FALSE

InitParseIdle ==
    /\ pr_in = <<>> /\ pr_op = "none" /\ pr_raw = <<>>
    /\ pr_out = [main_idea |-> <<>>, answer |-> <<>>]

InitGenIdle == g_pc = "idle" /\ g_attempt = 0 /\ g_log = <<>> /\ g_wait = 0

InitLongIdle == al_len = 0 /\ al_pc = "idle" /\ al_calls = <<>> /\ al_analyses = <<>>

InitAudioIdle ==
    /\ sa_duration = 0 /\ sa_silence = <<>> /\ sa_chunks = <<>> /\ sa_done = FALSE
    /\ ra_chunks = <<>> /\ ra_split = TRUE /\ ra_whole = [kind |-> "error", text |-> <<>>]
    /\ ra_pc = "idle" /\ ra_out = [text |-> <<>>, order |-> <<>>, whole_tried |-> FALSE]

Init ==
    /\ InitBot
    /\ InitAudioIdle
    /\ InitSplitIdle
    /\ InitParseIdle
    /\ InitGenIdle
    /\ InitLongIdle

\* the handlers of the slots SS serving the users UU, the texts TT, the
\* recordings AA, the completion results RR, with the clock advancing by the
\* steps DD
Bot(SS, UU, TT, RR, DD, AA) ==
    \/ \E s \in SS, u \in UU, t \in TT : TextStart(s, u, t)
    \/ \E s \in SS, u \in UU : VoiceStart(s, u)
    \/ \E s \in SS, ok \in BOOLEAN : VoiceDownload(s, ok)
    \/ \E s \in SS, t \in TT, audio \in AA : VoiceTranscribe(s, t, audio)
    \/ \E s \in SS : CacheLookup(s)
    \/ \E s \in SS : LongNoticeSent(s)
    \/ \E s \in SS, r \in RR : AIReturn(s, r)
    \/ \E s \in SS : AIFail(s)
    \/ \E s \in SS : SendIdea(s)
    \/ \E s \in SS : SendHeader(s)
    \/ \E s \in SS : SendAnswer(s)
    \/ \E s \in SS : Finish(s)
    \/ \E d \in DD : Tick(d)

Next ==
    \/ Bot(Slots, Users, Texts, Responses, TickSteps, AllAudio)
    \/ Faults(Slots)

Spec == Init /\ [][Next]_vars

\* one message at a time, one user
NextSeq == Bot({1}, {1}, Texts, Responses, TickSteps, PlainAudio)

SpecSeq == Init /\ [][NextSeq]_vars

\* one message at a time, with every recording and every call that can raise
NextFault ==
    \/ Bot({1}, {1}, Texts, {[idea |-> 40, answer |-> 60]}, {60}, AllAudio)
    \/ Faults({1})

SpecFault == Init /\ [][NextFault]_vars

\* one voice or text message at a time, every way the transcoding can end
NextTranscode ==
    Bot({1}, {1}, Texts, {[idea |-> 40, answer |-> 60]}, {COOLDOWN}, TranscodeAudio)

SpecTranscode == Init /\ [][NextTranscode]_vars

\* messages of every user, one at a time
NextUsers ==
    Bot({1}, Users, {2}, {[idea |-> 40, answer |-> 60]}, {WINDOW}, PlainAudio)

SpecUsers == Init /\ [][NextUsers]_vars

\* every slot busy with messages of one user
NextConc == Bot(Slots, {1}, {2}, {[idea |-> 40, answer |-> 60]}, {60}, PlainAudio)

SpecConc == Init /\ [][NextConc]_vars

\* handlers of one user interleaved at their awaits on one text, the
\* completion client returning either of two results
NextRace == Bot(Slots, {1}, {2}, Responses, {WINDOW}, PlainAudio)

SpecRace == Init /\ [][NextRace]_vars

\* ------------------------------------------------------- split_long_text
\* a string is a sequence of characters
Alphabet == {"a", "b", " ", "."}

IsDelim(c) == c \in {".", "!", "?"}

IsSpace(c) == c \in {" ", "\n", "\t"}

\* the character classes [.!?], \s and \S
InClass(c, cls) ==
    CASE cls = "delim" -> IsDelim(c)
      [] cls = "space" -> IsSpace(c)
      [] OTHER -> ~IsSpace(c)

RECURSIVE RunEnd(_, _, _)
\* the last index of the run of characters of the class that starts at s[i],
\* i - 1 when s[i] is not of the class
RunEnd(s, i, cls) ==
    IF i <= Len(s) /\ InClass(s[i], cls) THEN RunEnd(s, i + 1, cls) ELSE i - 1

RECURSIVE FirstDelim(_, _)
\* the index of the first delimiter at or after s[i], 0 when there is none
FirstDelim(s, i) ==
    IF i > Len(s) THEN 0
    ELSE IF IsDelim(s[i]) THEN i
    ELSE FirstDelim(s, i + 1)

RECURSIVE SentencesCombined(_)
\* re.split(r'([.!?]+[\s]*)', text) with every delimiter joined to the piece
\* before it; the piece after the last delimiter (maybe empty) comes last
SentencesCombined(s) ==
    LET d == FirstDelim(s, 1) IN
    IF d = 0 THEN <<s>>
    ELSE LET e == RunEnd(s, RunEnd(s, d, "delim") + 1, "space") IN
         <<SubSeq(s, 1, e)>> \o SentencesCombined(SubSeq(s, e + 1, Len(s)))

RECURSIVE StripLeft(_)
StripLeft(s) == IF s # <<>> /\ IsSpace(Head(s)) THEN StripLeft(Tail(s)) ELSE s

RECURSIVE StripRight(_)
StripRight(s) ==
    IF s # <<>> /\ IsSpace(s[Len(s)]) THEN StripRight(SubSeq(s, 1, Len(s) - 1)) ELSE s

\* str.strip()
Strip(s) == StripRight(StripLeft(s))

RECURSIVE Words(_)
\* str.split(): the maximal runs of non-whitespace characters
Words(s) ==
    LET t == StripLeft(s) IN
    IF t = <<>> THEN <<>>
    ELSE LET e == RunEnd(t, 1, "word") IN
         <<SubSeq(t, 1, e)>> \o Words(SubSeq(t, e + 1, Len(t)))

RECURSIVE PackWords(_, _, _, _)
\* the loop over the words of a sentence longer than max_length
PackWords(words, temp_chunk, chunks, max_length) ==
    IF words = <<>>
    THEN IF temp_chunk # <<>> THEN Append(chunks, temp_chunk) ELSE chunks
    ELSE LET word == Head(words) IN
         IF Len(temp_chunk) + Len(word) + 1 <= max_length
         THEN PackWords(Tail(words),
                        IF temp_chunk # <<>> THEN temp_chunk \o <<" ">> \o word ELSE word,
                        chunks, max_length)
         ELSE PackWords(Tail(words), word,
                        IF temp_chunk # <<>> THEN Append(chunks, temp_chunk) ELSE chunks,
                        max_length)

RECURSIVE PackSentences(_, _, _, _)
\* the loop over sentences_combined and the closing append
PackSentences(sentences, current_chunk, chunks, max_length) ==
    IF sentences = <<>>
    THEN IF current_chunk # <<>> THEN Append(chunks, Strip(current_chunk)) ELSE chunks
    ELSE LET sentence == Head(sentences) IN
         IF Len(sentence) > max_length
         THEN PackSentences(Tail(sentences), current_chunk,
                            PackWords(Words(sentence), <<>>, chunks, max_length),
                            max_length)
         ELSE IF Len(current_chunk) + Len(sentence) <= max_length
         THEN PackSentences(Tail(sentences), current_chunk \o sentence, chunks,
                            max_length)
         ELSE PackSentences(Tail(sentences), sentence,
                            IF current_chunk # <<>>
                            THEN Append(chunks, Strip(current_chunk)) ELSE chunks,
                            max_length)

split_long_text(txt, max_length) ==
    IF Len(txt) <= max_length THEN <<txt>>
    ELSE PackSentences(SentencesCombined(txt), <<>>, <<>>, max_length)

Strings == UNION {[1..n -> Alphabet] : n \in 0..MaxLen}

InitSplit ==
    /\ InitBot
    /\ InitAudioIdle
    /\ InitParseIdle
    /\ InitGenIdle
    /\ InitLongIdle
    /\ sp_text \in Strings
    /\ sp_max \in 1..MaxChunk
    /\ sp_chunks = <<>>
    /\ sp_done = FALSE

CallSplit ==
    /\ ~sp_done
    /\ sp_chunks' = split_long_text(sp_text, sp_max)
    /\ sp_done' = TRUE
    /\ UNCHANGED <<bot_vars, audio_vars, parse_vars, gen_vars, long_vars, sp_text, sp_max>>

NextSplit == CallSplit

SpecSplit == InitSplit /\ [][NextSplit]_vars

\* messages with ever new texts, or with the text the cache has held longest
MaxKey(c) == IF c = <<>> THEN 0 ELSE CHOOSE k \in CacheKeys(c) : \A j \in CacheKeys(c) : j <= k

CacheInputs ==
    {k \in {MaxKey(text_cache) + 1} : k <= MaxKeys}
        \cup {text_cache[i].key : i \in {j \in {1} : j <= Len(text_cache)}}

NextCache ==
    \/ \E t \in CacheInputs : TextStart(1, 1, t)
    \/ VoiceStart(1, 1)
    \/ \E ok \in BOOLEAN : VoiceDownload(1, ok)
    \/ \E t \in CacheInputs, audio \in PlainAudio : VoiceTranscribe(1, t, audio)
    \/ CacheLookup(1)
    \/ LongNoticeSent(1)
    \/ AIReturn(1, [idea |-> 40, answer |-> 60])
    \/ AIFail(1)
    \/ SendIdea(1)
    \/ SendHeader(1)
    \/ SendAnswer(1)
    \/ Finish(1)
    \/ Tick(WINDOW)

SpecCache == Init /\ [][NextCache]_vars

\* ------------------------------------------------- parse_analysis_response
\* A string is the sequence of its characters.  A Cyrillic letter is written
\* as one Latin letter (capitals for capitals), "#" is a character outside the
\* parser's allow-list, and a canned text of n characters is written as n
\* copies of its tag.
IdeaLabel == <<"O", "S", "N", "O", "V", "N", "A", "Q", " ", "M", "Y", "S", "L", "X", ":">>

AnswerLabel == <<"O", "T", "V", "E", "T", ":">>

Canned(tag, n) == [i \in 1..n |-> tag]

\* the pair returned for a falsy response
FailedIdea == Canned("<failed_idea>", 37)

FailedAnswer == Canned("<failed_answer>", 38)

\* the fillers of the sentence split
FillerMore == Canned("<filler_more>", 51)

FillerDiscuss == Canned("<filler_discuss>", 53)

\* the defaults for a field left empty
DefaultIdea == Canned("<default_idea>", 26)

DefaultAnswer == Canned("<default_answer>", 30)

CannedTags == {"<failed_idea>", "<failed_answer>", "<filler_more>", "<filler_discuss>",
               "<default_idea>", "<default_answer>", "<answer_hard>", "<answer_question>",
               "<answer_glad>", "<answer_long>", "<answer_short>"}

CyrUpper == {"O", "S", "N", "V", "A", "Q", "M", "Y", "L", "X", "T", "E"}

CyrLower == {"a", "b", "c", "d", "e", "f", "h", "i", "j", "l", "m", "n", "o", "p", "r",
             "s", "t", "u", "v", "w", "x", "z"}

IsDigit(c) == c \in {"0", "1", "2", "3", "4", "5", "6", "7", "8", "9"}

\* the class [\u0400-\u04FF\s\.\,\!\?\-\:\(\)\d]
Allowed(c) ==
    \/ c \in CyrUpper \cup CyrLower \cup CannedTags
    \/ IsSpace(c)
    \/ c \in {".", ",", "!", "?", "-", ":", "(", ")"}
    \/ IsDigit(c)

\* None
None == <<"<None>">>

Min(S) == CHOOSE x \in S : \A y \in S : x <= y

\* p occurs in s at index i
Occurs(s, p, i) == i + Len(p) - 1 <= Len(s) /\ \A k \in 1..Len(p) : s[i + k - 1] = p[k]

\* the index of the first occurrence of p in s, 0 when there is none
Find(s, p) ==
    LET hits == {i \in 1..(Len(s) - Len(p) + 1) : Occurs(s, p, i)} IN
    IF hits = {} THEN 0 ELSE Min(hits)

\* p in s
Contains(s, p) == Find(s, p) # 0

\* s.startswith(p)
StartsWith(s, p) == Occurs(s, p, 1)

RECURSIVE SplitOn(_, _)
\* s.split(sep)
SplitOn(s, sep) ==
    LET i == Find(s, sep) IN
    IF i = 0 THEN <<s>>
    ELSE <<SubSeq(s, 1, i - 1)>> \o SplitOn(SubSeq(s, i + Len(sep), Len(s)), sep)

RECURSIVE Join(_, _)
\* sep.join(parts)
Join(parts, sep) ==
    IF parts = <<>> THEN <<>>
    ELSE IF Len(parts) = 1 THEN parts[1]
    ELSE parts[1] \o sep \o Join(Tail(parts), sep)

\* s.replace(p, '')
Remove(s, p) == Join(SplitOn(s, p), <<>>)

\* re.sub(r'\s+', ' ', s)
CollapseSpaces(s) ==
    SelectSeq([i \in 1..Len(s) |->
                  IF ~IsSpace(s[i]) THEN s[i]
                  ELSE IF i > 1 /\ IsSpace(s[i - 1]) THEN "" ELSE " "],
              LAMBDA c : c # "")

\* re.sub(r'[^...]', '', s)
KeepAllowed(s) == SelectSeq(s, Allowed)

Fields(i, a) == [main_idea |-> i, answer |-> a]

RECURSIVE LineScan(_, _)
\* case 1: the loop over the lines; the last labelled line of each kind wins
LineScan(lines, f) ==
    IF lines = <<>> THEN f
    ELSE LET line == Strip(Head(lines)) IN
         IF StartsWith(line, IdeaLabel)
         THEN LineScan(Tail(lines), Fields(Strip(Remove(line, IdeaLabel)), f.answer))
         ELSE IF StartsWith(line, AnswerLabel)
         THEN LineScan(Tail(lines), Fields(f.main_idea, Strip(Remove(line, AnswerLabel))))
         ELSE LineScan(Tail(lines), f)

\* case 2: no answer yet and the answer label somewhere in the response
SplitOnAnswerLabel(response, f) ==
    IF f.answer = <<>> /\ Contains(response, AnswerLabel)
    THEN LET parts == SplitOn(response, AnswerLabel) IN
         IF Len(parts) = 2
         THEN Fields(IF Contains(parts[1], IdeaLabel)
                     THEN Strip(SplitOn(parts[1], IdeaLabel)[2])
                     ELSE Strip(parts[1]),
                     Strip(parts[2]))
         ELSE f
    ELSE f

\* [s.strip() for s in response.split('.') if s.strip()]
Sentences(s) ==
    LET parts == SplitOn(s, <<".">>)
        stripped == [i \in 1..Len(parts) |-> Strip(parts[i])]
    IN SelectSeq(stripped, LAMBDA p : p # <<>>)

\* seq[:n]
Take(seq, n) == SubSeq(seq, 1, IF n < Len(seq) THEN n ELSE Len(seq))

\* seq[n:]
Drop(seq, n) == SubSeq(seq, n + 1, Len(seq))

\* case 3: nothing found so far: blank line, else sentences
SplitUnlabelled(response, f) ==
    IF f.main_idea = <<>> /\ f.answer = <<>>
    THEN LET parts == SplitOn(response, <<"\n", "\n">>) IN
         IF Len(parts) >= 2 THEN Fields(parts[1], parts[2])
         ELSE LET sentences == Sentences(response) IN
              IF Len(sentences) >= 2
              THEN LET remaining == Drop(sentences, 2) IN
                   Fields(Join(Take(sentences, 2), <<".", " ">>) \o <<".">>,
                          IF remaining # <<>>
                          THEN Join(Take(remaining, 3), <<".", " ">>) \o <<".">>
                          ELSE FillerMore)
              ELSE Fields(response, FillerDiscuss)
    ELSE f

\* a clean-up that leaves the whitespace as it is
Sanitize_raw(field) ==
    LET a == Strip(KeepAllowed(field))
        b == Strip(Remove(a, IdeaLabel))
    IN Strip(Remove(b, AnswerLabel))

\* the allow-list, the whitespace and the label residues
Sanitize(field) ==
    LET a == Strip(CollapseSpaces(KeepAllowed(field)))
        b == Strip(Remove(a, IdeaLabel))
    IN Strip(Remove(b, AnswerLabel))

\* a parser that returns an empty field as it is
OrDefault_empty(field, default) == field

\* if not main_idea: main_idea = "..."
OrDefault(field, default) == IF field = <<>> THEN default ELSE field

\* a cut that appends the marker to FIELD_LIMIT characters
Truncate_late(field) ==
    IF Len(field) > FIELD_LIMIT
    THEN SubSeq(field, 1, FIELD_LIMIT) \o <<".", ".", ".">>
    ELSE field

\* if len(main_idea) > 500: main_idea = main_idea[:497] + "..."
Truncate(field) ==
    IF Len(field) > FIELD_LIMIT
    THEN SubSeq(field, 1, FIELD_LIMIT - 3) \o <<".", ".", ".">>
    ELSE field

\* parse_analysis_response on the string itself
parse_analysis_response_str(response) ==
    IF response = None \/ response = <<>> THEN Fields(FailedIdea, FailedAnswer)
    ELSE LET r == Strip(response)
             f1 == LineScan(SplitOn(r, <<"\n">>), Fields(<<>>, <<>>))
             f2 == SplitOnAnswerLabel(r, f1)
             f3 == SplitUnlabelled(r, f2)
         IN Fields(Truncate(OrDefault(Sanitize(f3.main_idea), DefaultIdea)),
                   Truncate(OrDefault(Sanitize(f3.answer), DefaultAnswer)))

\* ---------------------------------------------------- simple_text_analysis
\* str.lower() on the letters of the model
Lower(c) ==
    CASE c = "O" -> "o" [] c = "S" -> "s" [] c = "N" -> "n" [] c = "V" -> "v"
      [] c = "A" -> "a" [] c = "Q" -> "q" [] c = "M" -> "m" [] c = "Y" -> "y"
      [] c = "L" -> "l" [] c = "X" -> "x" [] c = "T" -> "t" [] c = "E" -> "e"
      [] OTHER -> c

LowerStr(s) == [i \in 1..Len(s) |-> Lower(s[i])]

\* the three keyword lists
HardWords == {<<"p", "r", "o", "b", "l", "e", "m", "a">>, <<"s", "l", "o", "j", "n", "o">>,
              <<"t", "r", "u", "d", "n", "o">>, <<"n", "e", " ", "z", "n", "a", "w">>}

QuestionWords == {<<"v", "o", "p", "r", "o", "s">>,
                  <<"i", "n", "t", "e", "r", "e", "s", "n", "o">>,
                  <<"h", "o", "c", "u", " ", "z", "n", "a", "t", "x">>}

GladWords == {<<"r", "a", "d">>, <<"h", "o", "r", "o", "f", "o">>,
              <<"o", "t", "l", "i", "c", "n", "o">>, <<"s", "p", "a", "s", "i", "b", "o">>}

\* any(word in text.lower() for word in words)
AnyWord(txt, words) == \E w \in words : Contains(LowerStr(txt), w)

\* the prefix kept of a text of at most 3 sentences
IDEA_PREFIX == 200

\* a fallback that returns the two texts without their labels
simple_text_analysis_str_bare(txt) ==
    (IF Len(txt) > IDEA_PREFIX THEN SubSeq(txt, 1, IDEA_PREFIX) \o <<".", ".", ".">> ELSE txt)
      \o <<"\n">> \o Canned("<answer_short>", 58)

\* simple_text_analysis on the string itself
simple_text_analysis_str(txt) ==
    LET sentences == Sentences(txt)
        n == Len(sentences)
        main_idea ==
            IF n > 3
            THEN sentences[1] \o <<".", " ">> \o sentences[(n \div 2) + 1] \o <<".", " ">>
                   \o sentences[n] \o <<".">>
            ELSE IF Len(txt) > IDEA_PREFIX THEN SubSeq(txt, 1, IDEA_PREFIX) \o <<".", ".", ".">>
            ELSE txt
        answer ==
            IF n > 3
            THEN IF AnyWord(txt, HardWords) THEN Canned("<answer_hard>", 70)
                 ELSE IF AnyWord(txt, QuestionWords) THEN Canned("<answer_question>", 79)
                 ELSE IF AnyWord(txt, GladWords) THEN Canned("<answer_glad>", 43)
                 ELSE Canned("<answer_long>", 80)
            ELSE Canned("<answer_short>", 58)
    IN IdeaLabel \o <<" ">> \o main_idea \o <<"\n">> \o AnswerLabel \o <<" ">> \o answer

\* ------------------------------------ the parser and the fallback, called
RECURSIVE Concat(_)
Concat(pieces) == IF pieces = <<>> THEN <<>> ELSE Head(pieces) \o Concat(Tail(pieces))

\* responses put together of labels, a letter, a character outside the
\* allow-list, whitespace, a period and a blank line
ResponsePieces == {IdeaLabel, AnswerLabel, <<"j">>, <<"#">>, <<" ">>, <<"\n">>, <<".">>,
                   <<"\n", "\n">>}

PieceStrings(pieces, n) == {Concat(ps) : ps \in UNION {[1..k -> pieces] : k \in 0..n}}

\* the two labelled lines around the fields X and Y
Labelled(X, Y) ==
    IdeaLabel \o <<" ">> \o X \o <<"\n">> \o AnswerLabel \o <<" ">> \o Y

FieldTexts == UNION {[1..k -> {"j", " ", "."}] : k \in 0..MaxField}

\* one of the two fields short
LabelledInputs ==
    {Labelled(X, Y) : <<X, Y>> \in {xy \in FieldTexts \X FieldTexts :
                                        Len(xy[1]) <= 2 \/ Len(xy[2]) <= 2}}

\* paragraphs set apart by blank lines
ParagraphTexts ==
    {Join(ps, <<"\n", "\n">>) :
        ps \in UNION {[1..k -> {<<"j">>, <<"s">>, <<"t", ".">>}] : k \in 1..MaxParagraphs}}

\* sentences, each closed by a period and a space
SentenceTexts ==
    {Concat([i \in 1..Len(ss) |-> <<ss[i], ".", " ">>]) :
        ss \in UNION {[1..k -> {"j", "s"}] : k \in 0..MaxSentences}}

Run(n) == [i \in 1..n |-> "j"]

LongFields == {Run(FIELD_LIMIT - 1), Run(FIELD_LIMIT), Run(FIELD_LIMIT + 1),
               Run(FIELD_LIMIT) \o <<" ">> \o Run(FIELD_LIMIT)}

ParseInputs ==
    {None}
      \cup PieceStrings(ResponsePieces, MaxPieces)
      \cup LabelledInputs
      \cup {Labelled(X, Y) : X, Y \in LongFields}
      \cup ParagraphTexts
      \cup SentenceTexts

\* texts put together of sentences, some with a keyword, and whitespace
TextPieces == {<<"j", ".">>, <<"j">>, <<" ">>, <<"\n">>, <<"r", "a", "d", ".">>,
               <<"v", "o", "p", "r", "o", "s", ".">>, <<"t", "r", "u", "d", "n", "o", ".">>,
               AnswerLabel}

\* texts for the fallback of a handler: empty, one word, four sentences, a
\* keyword, a label inside the text, more than 200 characters
LocalSamples ==
    {<<>>, <<"j">>, <<"j", ".", "j", ".", "j", ".", "j", ".">>,
     <<"r", "a", "d", ".">>, AnswerLabel \o <<"j">>, Run(IDEA_PREFIX + 1)}

LocalInputs ==
    PieceStrings(TextPieces, MaxPieces)
      \cup SentenceTexts
      \cup {Run(IDEA_PREFIX), Run(IDEA_PREFIX + 1)}
      \cup LocalSamples

NoFields == Fields(<<>>, <<>>)

InitParse ==
    /\ InitBot
    /\ InitAudioIdle
    /\ InitSplitIdle
    /\ InitGenIdle
    /\ InitLongIdle
    /\ pr_in \in ParseInputs \cup LocalInputs
    /\ pr_op = "none"
    /\ pr_raw = <<>>
    /\ pr_out = NoFields

\* analysis = parse_analysis_response(analysis_response)
CallParse ==
    /\ pr_op = "none"
    /\ pr_in \in ParseInputs
    /\ pr_op' = "parse"
    /\ pr_raw' = pr_in
    /\ pr_out' = parse_analysis_response_str(pr_in)
    /\ UNCHANGED <<bot_vars, audio_vars, split_vars, gen_vars, long_vars, pr_in>>

\* backup_response = await simple_text_analysis(text)
\* analysis = parse_analysis_response(backup_response)
CallLocal ==
    /\ pr_op = "none"
    /\ pr_in \in LocalInputs
    /\ pr_op' = "local"
    /\ pr_raw' = simple_text_analysis_str(pr_in)
    /\ pr_out' = parse_analysis_response_str(simple_text_analysis_str(pr_in))
    /\ UNCHANGED <<bot_vars, audio_vars, split_vars, gen_vars, long_vars, pr_in>>

NextParse == CallParse \/ CallLocal

SpecParse == InitParse /\ [][NextParse]_vars

InitLocal ==
    /\ InitBot
    /\ InitAudioIdle
    /\ InitSplitIdle
    /\ InitGenIdle
    /\ InitLongIdle
    /\ pr_in \in LocalSamples
    /\ pr_op = "none"
    /\ pr_raw = <<>>
    /\ pr_out = NoFields

\* one message at a time, the transport delivering, the clock advancing by a
\* whole cooldown, and the fallback on a text
NextLocal ==
    \/ Bot({1}, {1}, Texts, {[idea |-> 40, answer |-> 60]}, {COOLDOWN}, PlainAudio)
    \/ CallLocal

\* an awaited message.answer that returns lets the handler go on
SpecLocal ==
    /\ InitLocal /\ [][NextLocal]_vars
    /\ WF_vars(SendIdea(1)) /\ WF_vars(SendHeader(1)) /\ WF_vars(SendAnswer(1))

\* ------------------------------------------------------------- ai_generate
MODELS == <<"qwen", "deepseek", "gemma", "llama">>

MAX_RETRIES == 3

\* what one completion call can end in: a Russian text of more than 10
\* characters, a text without Cyrillic, an empty or short text, and the
\* exceptions by what their text holds
Outcomes == {"ok", "no_cyrillic", "short", "e429", "e404", "timeout", "error"}

\* MODELS[attempt % len(MODELS)]
ModelOf(attempt) == MODELS[(attempt % Len(MODELS)) + 1]

Pow2(n) == IF n = 0 THEN 1 ELSE IF n = 1 THEN 2 ELSE IF n = 2 THEN 4 ELSE 8

\* the asyncio.sleep of the except clause, 0 where the loop goes on at once
WaitAfter(outcome, attempt) ==
    CASE outcome = "e429" -> IF Pow2(attempt) + 5 < 30 THEN Pow2(attempt) + 5 ELSE 30
      [] outcome = "e404" -> 1
      [] outcome = "timeout" -> 5
      [] outcome \in {"short", "error"} -> 2
      [] OTHER -> 0

\* a loop that goes round once more than max_retries
LoopOver_more(attempt) == attempt > MAX_RETRIES

\* for attempt in range(max_retries): the range is used up
LoopOver(attempt) == attempt >= MAX_RETRIES

\* the next turn of the loop, or the raise after it
NextTurn ==
    /\ g_attempt' = g_attempt + 1
    /\ g_pc' = IF LoopOver(g_attempt + 1) THEN "raised" ELSE "call"

\* response = await ai_generate(prompt)
GenStart ==
    /\ g_pc = "idle"
    /\ g_pc' = IF LoopOver(0) THEN "raised" ELSE "call"
    /\ UNCHANGED <<g_attempt, g_log, g_wait, bot_vars, audio_vars, split_vars, parse_vars, long_vars>>

\* await client.chat.completions.create(...) came back
GenCall(outcome) ==
    /\ g_pc = "call"
    /\ g_log' = Append(g_log, [model |-> ModelOf(g_attempt), outcome |-> outcome])
    /\ IF outcome = "ok"
       THEN g_pc' = "returned" /\ UNCHANGED <<g_attempt, g_wait>>
       ELSE IF outcome = "no_cyrillic"
       THEN NextTurn /\ UNCHANGED g_wait
       ELSE /\ g_pc' = "sleep"
            /\ g_wait' = WaitAfter(outcome, g_attempt)
            /\ UNCHANGED g_attempt
    /\ UNCHANGED <<bot_vars, audio_vars, split_vars, parse_vars, long_vars>>

\* await asyncio.sleep(...) is over
GenWake ==
    /\ g_pc = "sleep"
    /\ g_wait' = 0
    /\ NextTurn
    /\ UNCHANGED <<g_log, bot_vars, audio_vars, split_vars, parse_vars, long_vars>>

NextGen ==
    \/ GenStart
    \/ \E outcome \in Outcomes : GenCall(outcome)
    \/ GenWake

InitGen ==
    /\ InitBot
    /\ InitAudioIdle
    /\ InitSplitIdle
    /\ InitParseIdle
    /\ InitGenIdle
    /\ InitLongIdle

\* the event loop resumes a coroutine whose call (timeout=60) or sleep is over
SpecGen == InitGen /\ [][NextGen]_vars /\ WF_vars(NextGen)

\* ------------------------------------------------------- analyze_long_text
CHUNK_SIZE == 3500

MAX_CHUNKS == 3

\* the length of the prefix "part i of k: " of line 140, i and k of one digit
PART_PREFIX == 14

\* the length of the marker "... [text cut]" of line 135
CUT_MARKER == 20

\* the lengths of the texts handed to analyze_long_text
LongLens == {1, 3500, 3501, 4000, 4001, 7000, 7001, 10499, 10500, 10501, 14000, 14001,
             20000}

\* len([text[i:i + chunk_size] for i in range(0, len(text), chunk_size)])
SliceCount(n) == (n + CHUNK_SIZE - 1) \div CHUNK_SIZE

\* a list of chunks that is never cut down
ChunkCount_all(n) == SliceCount(n)

\* if len(chunks) > 3: chunks = chunks[:3]
ChunkCount(n) == IF SliceCount(n) > MAX_CHUNKS THEN MAX_CHUNKS ELSE SliceCount(n)

\* len(chunks[i - 1]), the marker on the last of the chunks kept
ChunkLen(n, i) ==
    LET slice == IF i * CHUNK_SIZE <= n THEN CHUNK_SIZE ELSE n - (i - 1) * CHUNK_SIZE IN
    IF SliceCount(n) > MAX_CHUNKS /\ i = ChunkCount(n) THEN slice + CUT_MARKER ELSE slice

\* ai_analyze_message on the prefix and the chunk
PartCall(n, i) ==
    [fn |-> "ai_analyze_message", part |-> i, len |-> PART_PREFIX + ChunkLen(n, i),
     marked |-> SliceCount(n) > MAX_CHUNKS /\ i = ChunkCount(n)]

\* ai_analyze_message(text)
WholeCall(n) == [fn |-> "ai_analyze_message", part |-> 0, len |-> n, marked |-> FALSE]

\* ai_generate(final_prompt)
FinalCall == [fn |-> "ai_generate", part |-> 0, len |-> 0, marked |-> FALSE]

\* analysis_response = await analyze_long_text(text)
LongStart ==
    /\ al_pc = "idle"
    /\ IF al_len <= LONG_TEXT
       THEN al_pc' = "whole" /\ al_calls' = <<WholeCall(al_len)>>
       ELSE al_pc' = "part" /\ al_calls' = <<PartCall(al_len, 1)>>
    /\ UNCHANGED <<al_len, al_analyses, bot_vars, audio_vars, split_vars, parse_vars, gen_vars>>

\* the one call for a text of at most 4000 characters came back or raised
WholeReturns(ok) ==
    /\ al_pc = "whole"
    /\ al_pc' = IF ok THEN "returned" ELSE "raised"
    /\ UNCHANGED <<al_len, al_calls, al_analyses, bot_vars, audio_vars, split_vars, parse_vars, gen_vars>>

\* the call for a chunk came back or raised: the next chunk, or the final prompt
PartReturns(ok) ==
    /\ al_pc = "part"
    /\ al_analyses' = Append(al_analyses, IF ok THEN "analysis" ELSE "placeholder")
    /\ IF Len(al_analyses) + 1 < ChunkCount(al_len)
       THEN /\ al_calls' = Append(al_calls, PartCall(al_len, Len(al_analyses) + 2))
            /\ UNCHANGED al_pc
       ELSE /\ al_calls' = Append(al_calls, FinalCall)
            /\ al_pc' = "final"
    /\ UNCHANGED <<al_len, bot_vars, audio_vars, split_vars, parse_vars, gen_vars>>

\* response = await ai_generate(final_prompt) came back or raised
FinalReturns(ok) ==
    /\ al_pc = "final"
    /\ al_pc' = IF ok THEN "returned" ELSE "raised"
    /\ UNCHANGED <<al_len, al_calls, al_analyses, bot_vars, audio_vars, split_vars, parse_vars, gen_vars>>

NextLong ==
    \/ LongStart
    \/ \E ok \in BOOLEAN : WholeReturns(ok)
    \/ \E ok \in BOOLEAN : PartReturns(ok)
    \/ \E ok \in BOOLEAN : FinalReturns(ok)

InitLong ==
    /\ InitBot
    /\ InitAudioIdle
    /\ InitSplitIdle
    /\ InitParseIdle
    /\ InitGenIdle
    /\ al_len \in LongLens
    /\ al_pc = "idle"
    /\ al_calls = <<>>
    /\ al_analyses = <<>>

SpecLong == InitLong /\ [][NextLong]_vars

\* -------------------------------------------------- split_audio_on_silence
\* len(audio) in ms: around whole windows, and short recordings
Durations ==
    {1, SHORT_AUDIO, SHORT_AUDIO + 1}
      \cup {k * CHUNK_LENGTH + r :
              k \in 1..MaxWindows,
              r \in {0, 1, MIN_CHUNK - 1, MIN_CHUNK, MIN_CHUNK + 1, CHUNK_LENGTH - 1}}

\* split_on_silence returned n chunks (their lengths do not matter)
SilenceChunks(n) == [i \in 1..n |-> 2 * MIN_CHUNK]

SilenceSplits ==
    {SilenceChunks(n) : n \in {0, 1, 2, MAX_SILENCE_CHUNKS, MAX_SILENCE_CHUNKS + 1}}

\* range(0, duration, chunk_length) has this many elements
WindowCount(duration) == (duration + CHUNK_LENGTH - 1) \div CHUNK_LENGTH

\* len(audio[i:i + chunk_length]) for the j-th window
WindowLen(duration, j) == Min({CHUNK_LENGTH, duration - (j - 1) * CHUNK_LENGTH})

\* the loop of the fixed windows: a window is kept if len(chunk) > 1000
FixedSlices(duration) ==
    SelectSeq([j \in 1..WindowCount(duration) |-> WindowLen(duration, j)],
              LAMBDA l : l > MIN_CHUNK)

\* split_audio_on_silence, by the lengths of the chunks
split_audio_on_silence(duration, silence) ==
    IF duration <= SHORT_AUDIO THEN <<duration>>
    ELSE IF silence = <<>> \/ Len(silence) > MAX_SILENCE_CHUNKS \/ Len(silence) < 2
    THEN FixedSlices(duration)
    ELSE silence

InitSlice ==
    /\ InitBot
    /\ InitSplitIdle
    /\ InitParseIdle
    /\ InitGenIdle
    /\ InitLongIdle
    /\ sa_duration \in Durations
    /\ sa_silence \in SilenceSplits
    /\ sa_chunks = <<>> /\ sa_done = FALSE
    /\ ra_chunks = <<>> /\ ra_split = TRUE /\ ra_whole = [kind |-> "error", text |-> <<>>]
    /\ ra_pc = "idle" /\ ra_out = [text |-> <<>>, order |-> <<>>, whole_tried |-> FALSE]

\* chunks = split_audio_on_silence(wav_filename)
CallSlice ==
    /\ ~sa_done
    /\ sa_done' = TRUE
    /\ sa_chunks' = split_audio_on_silence(sa_duration, sa_silence)
    /\ UNCHANGED <<bot_vars, split_vars, parse_vars, gen_vars, long_vars,
                   sa_duration, sa_silence,
                   ra_chunks, ra_split, ra_whole, ra_pc, ra_out>>

NextSlice == CallSlice

SpecSlice == InitSlice /\ [][NextSlice]_vars

\* ---------------------------------------------------- recognize_long_audio
\* what recognize_google gives for a chunk or for the whole file
ChunkTexts == {<<"a">>, <<"b", " ">>, <<" ", "c">>}

Heard(k, t) == [kind |-> k, text |-> t]

\* a text, an empty text, sr.UnknownValueError, another exception, and
\* chunk.export raising before the try statement
ChunkResults ==
    {Heard("text", t) : t \in ChunkTexts}
      \cup {Heard(k, <<>>) : k \in SegmentOutcomes \ {"text"}}

WholeResults == {Heard("text", <<"w">>), Heard("empty", <<>>), Heard("error", <<>>)}

RECURSIVE RecognizeChunks_abort(_, _, _, _)
\* a loop that gives up at the first chunk that is not recognized
RecognizeChunks_abort(chunks, i, full_text, order) ==
    IF i > Len(chunks) \/ chunks[i].kind \in {"unknown", "error"}
    THEN [raised |-> FALSE, text |-> Strip(full_text), order |-> order]
    ELSE IF chunks[i].kind = "export"
    THEN [raised |-> TRUE, text |-> <<>>, order |-> order]
    ELSE RecognizeChunks_abort(chunks, i + 1,
                               IF chunks[i].text # <<>>
                               THEN full_text \o chunks[i].text \o <<" ">>
                               ELSE full_text,
                               Append(order, i))

RECURSIVE RecognizeChunks(_, _, _, _)
\* for i, chunk in enumerate(chunks): export, recognize, add to full_text;
\* order lists the chunks handed to the recognizer
RecognizeChunks(chunks, i, full_text, order) ==
    IF i > Len(chunks)
    THEN [raised |-> FALSE, text |-> Strip(full_text), order |-> order]
    ELSE IF chunks[i].kind = "export"
    THEN [raised |-> TRUE, text |-> <<>>, order |-> order]
    ELSE RecognizeChunks(chunks, i + 1,
                         IF chunks[i].kind = "text" /\ chunks[i].text # <<>>
                         THEN full_text \o chunks[i].text \o <<" ">>
                         ELSE full_text,
                         Append(order, i))

\* recognize_long_audio on the texts themselves
recognize_long_audio_str(chunks, split, whole) ==
    LET r == RecognizeChunks(chunks, 1, <<>>, <<>>) IN
    IF split /\ ~r.raised
    THEN [text |-> r.text, order |-> r.order, whole_tried |-> FALSE]
    ELSE [text |-> IF whole.kind = "text" THEN whole.text ELSE <<>>,
          order |-> IF split THEN r.order ELSE <<>>,
          whole_tried |-> TRUE]

InitRecognize ==
    /\ InitBot
    /\ InitSplitIdle
    /\ InitParseIdle
    /\ InitGenIdle
    /\ InitLongIdle
    /\ sa_duration = 0 /\ sa_silence = <<>> /\ sa_chunks = <<>> /\ sa_done = FALSE
    /\ ra_chunks \in UNION {[1..n -> ChunkResults] : n \in 1..MaxSegments}
    /\ ra_split \in BOOLEAN
    /\ ra_whole \in WholeResults
    /\ ra_pc = "idle"
    /\ ra_out = [text |-> <<>>, order |-> <<>>, whole_tried |-> FALSE]

\* text = await recognize_long_audio(wav_filename)
CallRecognize ==
    /\ ra_pc = "idle"
    /\ ra_pc' = "returned"
    /\ ra_out' = recognize_long_audio_str(ra_chunks, ra_split, ra_whole)
    /\ UNCHANGED <<bot_vars, split_vars, parse_vars, gen_vars, long_vars,
                   sa_duration, sa_silence, sa_chunks, sa_done,
                   ra_chunks, ra_split, ra_whole>>

NextRecognize == CallRecognize

SpecRecognize == InitRecognize /\ [][NextRecognize]_vars

\* ------------------------------------------------------------------ claims
ActiveCount(u) ==
    Cardinality({i \in 1..Len(user_requests[u]) : user_requests[u][i] < WINDOW})

CooldownActive(u) == u \in DOMAIN last_ai_error /\ last_ai_error[u] < COOLDOWN

\* the handler of slot s evaluates the gate in this step
GateStep(s) == pc[s] = "idle" /\ pc'[s] # "idle"

\* the handler of slot s consults the cache in this step
LookupStep(s) == pc[s] \in {"ack", "echoed"} /\ pc'[s] \notin {pc[s], "downloaded", "done"}

\* the completion client returns to the handler of slot s in this step
StoreStep(s) == pc[s] = "ai" /\ pc'[s] = "idea_sent"

\* C2: no message handed to the transport is longer than 4096 characters
C2_MessagesFit == \A s \in Slots : sent[s].len <= TG_LIMIT

\* C5: in every state reached by interleaved handlers, a user's log holds at
\* most 3 entries that are within the 120 s window
C5_WindowNeverExceeded == \A u \in Users : ActiveCount(u) <= RATE_LIMIT

C5_Witness ==
    \E s1, s2 \in Slots :
        /\ s1 # s2 /\ user_id[s1] = user_id[s2]
        /\ pc[s1] = "ack" /\ pc[s2] = "rejected"
        /\ ActiveCount(user_id[s1]) = RATE_LIMIT
        /\ ~CooldownActive(user_id[s1])

\* C6: a gate evaluated with 3 requests inside the window rejects; entries 120 s
\* old or older are pruned and do not count, so with fewer than 3 entries inside
\* the window and no cooldown the gate admits and records the request
C6_WindowGate ==
    [][\A s \in Slots : GateStep(s) =>
          LET u == user_id'[s] IN
          /\ ActiveCount(u) >= RATE_LIMIT => pc'[s] = "rejected"
          /\ (ActiveCount(u) < RATE_LIMIT /\ ~CooldownActive(u)) =>
                /\ pc'[s] = "ack"
                /\ Len(user_requests'[u]) = ActiveCount(u) + 1
          /\ \A i \in 1..Len(user_requests'[u]) : user_requests'[u][i] < WINDOW
      ]_vars

C6_Witness ==
    \E s \in Slots :
        /\ pc[s] = "rejected"
        /\ ActiveCount(user_id[s]) = RATE_LIMIT
        /\ user_requests[user_id[s]][1] = WINDOW - 1
        /\ ~CooldownActive(user_id[s])

\* C7: a gate evaluated less than 300 s after the user's last AI failure rejects,
\* whatever the log holds; 300 s after it, or with no failure ever recorded, the
\* cooldown does not block: the gate rejects only for 3 requests in the window
C7_CooldownGate ==
    [][\A s \in Slots : GateStep(s) =>
          LET u == user_id'[s] IN
          /\ (u \in DOMAIN last_ai_error /\ last_ai_error[u] < COOLDOWN)
                => pc'[s] = "rejected"
          /\ (u \notin DOMAIN last_ai_error \/ last_ai_error[u] >= COOLDOWN)
                => (pc'[s] = "rejected" <=> ActiveCount(u) >= RATE_LIMIT)
      ]_vars

C7_Witness ==
    \E s \in Slots :
        /\ pc[s] = "rejected"
        /\ user_requests[user_id[s]] = <<>>
        /\ user_id[s] \in DOMAIN last_ai_error
        /\ last_ai_error[user_id[s]] = COOLDOWN - 1

\* C8: a request made during the failure cooldown (and within the rate limit)
\* is taken on and served by the local analyzer
C8_ServedDuringCooldown ==
    [][\A s \in Slots : GateStep(s) =>
          LET u == user_id'[s] IN
          (CooldownActive(u) /\ ActiveCount(u) < RATE_LIMIT) => pc'[s] # "rejected"
      ]_vars

\* C9: the result of a successful analysis is stored under the text's
\* fingerprint as delivered; a later request with a text that is in the cache
\* takes the stored result, leaves the cache as it is, and the completion
\* client is awaited only for a text that is not in the cache
C9_SecondRequestServedFromCache ==
    [][\A s \in Slots :
          /\ StoreStep(s) =>
                /\ text[s] \in CacheKeys(text_cache')
                /\ CacheGet(text_cache', text[s]) = analysis'[s]
          /\ (LookupStep(s) /\ text[s] \in CacheKeys(text_cache)) =>
                /\ pc'[s] = "notice"
                /\ sent'[s].tag = "cached"
                /\ analysis'[s] = CacheGet(text_cache, text[s])
                /\ text_cache' = text_cache
          /\ (pc'[s] = "ai" /\ pc[s] # "ai") => text[s] \notin CacheKeys(text_cache)
      ]_vars

C9_Witness ==
    \E s \in Slots :
        /\ pc[s] = "notice" /\ sent[s].tag = "cached"
        /\ analysis[s] = CacheGet(text_cache, text[s])
        /\ analysis[s] = parse_analysis_response([idea |-> 700, answer |-> 0])

\* C1: the response cache never holds more than 50 entries
C1_CacheBounded == Len(text_cache) <= CACHE_LIMIT

\* C10: the voice handler's insertion of a new fingerprint into a cache of 50
\* entries leaves 50 entries, the first-inserted one gone and the others in
\* their order with the new one last; a cache hit changes neither the entries
\* nor their order, so the entry that was hit is evicted when it is the oldest
C10_InsertionOrderEviction ==
    [][\A s \in Slots :
          /\ (StoreStep(s) /\ kind[s] = "voice" /\ Len(text_cache) = CACHE_LIMIT
                /\ text[s] \notin CacheKeys(text_cache)) =>
                /\ Len(text_cache') = CACHE_LIMIT
                /\ text_cache[1].key \notin CacheKeys(text_cache')
                /\ \A i \in 1..(CACHE_LIMIT - 1) : text_cache'[i] = text_cache[i + 1]
                /\ text_cache'[CACHE_LIMIT].key = text[s]
          /\ (LookupStep(s) /\ text[s] \in CacheKeys(text_cache)) =>
                text_cache' = text_cache
      ]_vars

\* the 51st fingerprint was inserted by the voice handler and the first is gone
C10_Witness ==
    /\ Len(text_cache) = CACHE_LIMIT
    /\ text_cache[1].key = 2
    /\ text_cache[CACHE_LIMIT].key = CACHE_LIMIT + 1
    /\ \E s \in Slots : kind[s] = "voice" /\ pc[s] = "idea_sent"
                        /\ text[s] = CACHE_LIMIT + 1

RECURSIVE Flatten(_)
\* the chunks one after the other
Flatten(chunks) == IF chunks = <<>> THEN <<>> ELSE Head(chunks) \o Flatten(Tail(chunks))

\* a string without its whitespace
Content(s) == SelectSeq(s, LAMBDA c : ~IsSpace(c))

\* C3: every chunk split_long_text returns is at most max_length long
C3_ChunksFit == sp_done => \A i \in 1..Len(sp_chunks) : Len(sp_chunks[i]) <= sp_max

\* C4: the chunks, read in the order returned, hold the text's content in its
\* order (whitespace apart)
C4_ContentKept == sp_done => Content(Flatten(sp_chunks)) = Content(sp_text)

\* ------------------------------------------- claims about the parser
Parsed == pr_op = "parse"

\* the closing steps applied to the text a layer took for a field
Closed(field, default) == Truncate(OrDefault(Sanitize(field), default))

\* C11: for every response (None, empty, whitespace only, labels only, only
\* characters outside the allow-list, text without labels or sentences) the
\* parser returns a pair whose main_idea and answer are both non-empty
C11_FieldsNonEmpty ==
    Parsed => pr_out.main_idea # <<>> /\ pr_out.answer # <<>>

C11_Witness ==
    /\ Parsed /\ pr_in = <<"#", " ", "#">>
    /\ pr_out = Fields(DefaultIdea, FillerDiscuss)

\* C12: each returned field is at most 500 characters long; a field longer
\* than 500 after sanitizing comes back as its first 497 characters and the
\* 3-character marker, 500 in all, and a field of at most 500 comes back uncut
C12_FieldsCut ==
    Parsed =>
        /\ Len(pr_out.main_idea) <= FIELD_LIMIT
        /\ Len(pr_out.answer) <= FIELD_LIMIT
        /\ \A X, Y \in LongFields : pr_in = Labelled(X, Y) =>
              /\ Len(X) <= FIELD_LIMIT => pr_out.main_idea = X
              /\ Len(Y) <= FIELD_LIMIT => pr_out.answer = Y
              /\ Len(X) > FIELD_LIMIT =>
                    /\ Len(pr_out.main_idea) = FIELD_LIMIT
                    /\ \A i \in 1..(FIELD_LIMIT - 3) : pr_out.main_idea[i] = X[i]
                    /\ \A i \in (FIELD_LIMIT - 2)..FIELD_LIMIT : pr_out.main_idea[i] = "."
              /\ Len(Y) > FIELD_LIMIT =>
                    /\ Len(pr_out.answer) = FIELD_LIMIT
                    /\ \A i \in 1..(FIELD_LIMIT - 3) : pr_out.answer[i] = Y[i]
                    /\ \A i \in (FIELD_LIMIT - 2)..FIELD_LIMIT : pr_out.answer[i] = "."

C12_Witness ==
    /\ Parsed /\ pr_in = Labelled(Run(FIELD_LIMIT + 1), Run(FIELD_LIMIT))
    /\ Len(pr_out.main_idea) = FIELD_LIMIT
    /\ pr_out.main_idea[FIELD_LIMIT - 3] = "j" /\ pr_out.main_idea[FIELD_LIMIT - 2] = "."
    /\ pr_out.answer = Run(FIELD_LIMIT)

\* the fields X and Y of a response made of the two labelled lines
FieldX == SubSeq(pr_in, Len(IdeaLabel) + 2, Find(pr_in, <<"\n">>) - 1)

FieldY == SubSeq(pr_in, Find(pr_in, <<"\n">>) + Len(AnswerLabel) + 2, Len(pr_in))

TwoLabelledLines(fields) ==
    /\ Parsed
    /\ Contains(pr_in, <<"\n">>)
    /\ FieldX \in fields /\ FieldY \in fields
    /\ pr_in = Labelled(FieldX, FieldY)

\* C13, as stated: for the two labelled lines around X and Y, both of
\* allow-listed characters, the parser returns exactly X and Y
C13_ExactFields == TwoLabelledLines(FieldTexts) => pr_out = Fields(FieldX, FieldY)

\* a field with every run of whitespace made one space and the ends trimmed
Normal(field) == Strip(CollapseSpaces(field))

\* C13, amended: for the two labelled lines around X and Y, both of
\* allow-listed characters, the parser returns X and Y with every run of
\* whitespace made one space and the ends trimmed, when these are non-empty,
\* at most 500 characters long and hold neither label
C13_NormalizedFields ==
    (/\ TwoLabelledLines(FieldTexts \cup LongFields)
     /\ Normal(FieldX) # <<>> /\ Normal(FieldY) # <<>>
     /\ Len(Normal(FieldX)) <= FIELD_LIMIT /\ Len(Normal(FieldY)) <= FIELD_LIMIT)
    => pr_out = Fields(Normal(FieldX), Normal(FieldY))

C13_Witness ==
    /\ Parsed /\ pr_in = Labelled(<<"j", " ", " ", "j">>, <<"j", ".">>)
    /\ pr_out = Fields(<<"j", " ", "j">>, <<"j", ".">>)

\* C14: a response with the answer label once and without the idea label,
\* text on both sides of the label: main_idea is the text before the label and
\* answer the text after it, also when the label starts a line of its own
C14_SplitOnAnswerLabel ==
    (/\ Parsed
     /\ pr_in # None
     /\ ~Contains(pr_in, IdeaLabel)
     /\ Len(SplitOn(pr_in, AnswerLabel)) = 2
     /\ Sanitize(SplitOn(pr_in, AnswerLabel)[1]) # <<>>
     /\ Sanitize(SplitOn(pr_in, AnswerLabel)[2]) # <<>>)
    => pr_out = Fields(Closed(SplitOn(pr_in, AnswerLabel)[1], DefaultIdea),
                       Closed(SplitOn(pr_in, AnswerLabel)[2], DefaultAnswer))

\* C19: a response without labels that holds a blank line: main_idea is the
\* text before the first blank line and answer all the text after it
C19_SplitOnFirstBlankLine ==
    (/\ Parsed
     /\ pr_in # None
     /\ ~Contains(pr_in, IdeaLabel) /\ ~Contains(pr_in, AnswerLabel)
     /\ Contains(Strip(pr_in), <<"\n", "\n">>))
    =>     LET r == Strip(pr_in)
               i == Find(r, <<"\n", "\n">>)
           IN pr_out = Fields(Closed(SubSeq(r, 1, i - 1), DefaultIdea),
                              Closed(SubSeq(r, i + 2, Len(r)), DefaultAnswer))

\* --------------------------------------------------- claims on ai_generate
Rejected(i) == g_log[i].outcome # "ok"

\* C15: ai_generate ends; it makes at most 3 completion calls, call i (from
\* 0) with MODELS[i mod 4]; every rejected call, whatever its kind, uses up
\* one turn; it returns at the first accepted response and raises when the
\* third call was rejected too
C15_GenerateTerminates ==
    /\ [](/\ Len(g_log) <= MAX_RETRIES
          /\ \A i \in 1..Len(g_log) : g_log[i].model = MODELS[((i - 1) % 4) + 1]
          /\ \A i \in 1..(Len(g_log) - 1) : Rejected(i)
          /\ g_pc = "call" => g_attempt = Len(g_log)
          /\ g_pc = "sleep" => g_attempt = Len(g_log) - 1 /\ Rejected(Len(g_log))
          /\ g_pc = "returned" => g_log # <<>> /\ ~Rejected(Len(g_log))
          /\ g_pc = "raised" =>
                Len(g_log) = MAX_RETRIES /\ \A i \in 1..MAX_RETRIES : Rejected(i))
    /\ <>(g_pc \in {"returned", "raised"})

C15_Witness ==
    /\ g_pc = "raised"
    /\ g_log = <<[model |-> "qwen", outcome |-> "no_cyrillic"],
                 [model |-> "deepseek", outcome |-> "e404"],
                 [model |-> "gemma", outcome |-> "short"]>>

\* --------------------------------------------- claims on analyze_long_text
AnalyzeLongEnded == al_pc \in {"returned", "raised"}

\* min(3, ceil(n / 3500))
ExpectedParts(n) ==
    LET c == IF n % 3500 = 0 THEN n \div 3500 ELSE (n \div 3500) + 1 IN
    IF c < 3 THEN c ELSE 3

\* C20: for a text of more than 4000 characters analyze_long_text analyzes
\* k = min(3, ceil(len / 3500)) sub-chunks in order, the third carrying the
\* marker when text was dropped, keeps a placeholder for a sub-chunk whose
\* analysis raised and goes on, and then makes exactly one final completion; a
\* text of at most 4000 characters gets one analyze call and no final one
C20_LongAnalysis ==
    /\ \A i \in 1..Len(al_calls) : al_calls[i].fn = "ai_generate" => i = Len(al_calls)
    /\ Len(al_analyses) <= ExpectedParts(al_len)
    /\ AnalyzeLongEnded =>
          LET k == ExpectedParts(al_len) IN
          IF al_len > 4000
          THEN /\ Len(al_calls) = k + 1
               /\ \A i \in 1..k :
                     /\ al_calls[i].fn = "ai_analyze_message"
                     /\ al_calls[i].part = i
                     /\ al_calls[i].marked = (i = 3 /\ al_len > 3 * 3500)
                     /\ al_calls[i].len <= 4000
               /\ al_calls[k + 1].fn = "ai_generate"
               /\ Len(al_analyses) = k
          ELSE al_calls = <<WholeCall(al_len)>> /\ al_analyses = <<>>

C20_Witness ==
    /\ al_pc = "returned" /\ al_len = 10501
    /\ al_analyses = <<"analysis", "placeholder", "placeholder">>
    /\ Len(al_calls) = 4 /\ al_calls[3].marked /\ al_calls[4] = FinalCall


\* C16: when a handler has finished, every temporary file it made (the .ogg,
\* the .wav, the .wav of every segment) is deleted, whichever way it ended
C16_TempFilesDeleted == \A s \in Slots : pc[s] = "idle" => files[s] = {}

\* C17: no exception leaves a handler: a handler never ends with an exception
\* of one of its awaited calls propagating to the dispatcher
C17_NothingEscapes == \A s \in Slots : pc[s] # "escaped"


\* the completion call of the handler in slot s raised and its except clause ran
LocalStep(s) == pc[s] = "ai" /\ pc'[s] = "notice"

\* raw is "<idea label> X \n <answer label> Y" with Y not empty
LabelledTwoFields(raw) ==
    LET sep == <<"\n">> \o AnswerLabel \o <<" ">> IN
    /\ StartsWith(raw, IdeaLabel \o <<" ">>)
    /\ \E i \in (Len(IdeaLabel) + 2)..Len(raw) :
          /\ SubSeq(raw, i, Min({Len(raw), i + Len(sep) - 1})) = sep
          /\ i + Len(sep) <= Len(raw)

\* C18: when the completion path raises, the handler sets the cooldown of the
\* user, takes the analysis of the local fallback (both fields non-empty), never
\* awaits the completion client again, and sends the main idea, the header and
\* the answer in this order; the fallback returns a labelled two-field string
\* for every text, the empty one included
C18_LocalFallback ==
    /\ [][\A s \in Slots :
            /\ LocalStep(s) =>
                  /\ user_id[s] \in DOMAIN last_ai_error'
                  /\ last_ai_error'[user_id[s]] = 0
                  /\ analysis'[s].main_idea > 0 /\ analysis'[s].answer > 0
                  /\ sent'[s].tag = "local"
            /\ analysis[s] # NoAnalysis => pc'[s] # "ai"
            /\ pc[s] = "notice" /\ pc'[s] # "notice" =>
                  /\ pc'[s] = "idea_sent" /\ analysis'[s] = analysis[s]
                  /\ sent'[s] = IdeaMsg(analysis[s])
            /\ pc[s] = "idea_sent" /\ pc'[s] # "idea_sent" =>
                  /\ pc'[s] = "header_sent" /\ analysis'[s] = analysis[s]
                  /\ sent'[s] = HeaderMsg
            /\ pc[s] = "header_sent" /\ pc'[s] # "header_sent" =>
                  /\ pc'[s] = "done" /\ analysis'[s] = analysis[s]
                  /\ sent'[s] = AnswerMsg(analysis[s])]_vars
    /\ \A s \in Slots :
          (pc[s] = "notice" /\ sent[s].tag = "local")
             ~> (pc[s] = "done" /\ sent[s] = AnswerMsg(analysis[s]) /\ sent[s].len > 0)
    /\ [](pr_op = "local" =>
            /\ LabelledTwoFields(pr_raw)
            /\ pr_out.main_idea # <<>> /\ pr_out.answer # <<>>)

\* a handler whose completion call raised has sent the answer of the local
\* analysis, and the fallback was applied to the empty text
C18_Witness ==
    /\ pc[1] = "done" /\ sent[1] = AnswerMsg(analysis[1])
    /\ analysis[1] = parse_analysis_response(simple_text_analysis(text[1]))
    /\ text[1] \notin CacheKeys(text_cache)
    /\ 1 \in DOMAIN last_ai_error
    /\ pr_op = "local" /\ pr_in = <<>>
    /\ pr_out = Fields(DefaultIdea, Canned("<answer_short>", 58))


\* -------------------------------------------------- claims about the audio
RECURSIVE Recognized(_)
\* the texts of the chunks that were recognized, in chunk order
Recognized(chunks) ==
    IF chunks = <<>> THEN <<>>
    ELSE IF Head(chunks).kind = "text" /\ Head(chunks).text # <<>>
    THEN <<Head(chunks).text>> \o Recognized(Tail(chunks))
    ELSE Recognized(Tail(chunks))

\* the segmented pipeline raised: the split, or the export of a chunk
PipelineRaised ==
    ~ra_split \/ \E i \in 1..Len(ra_chunks) : ra_chunks[i].kind = "export"

\* C21: the chunks are recognized in order, a chunk that fails is skipped and
\* the later ones are still recognized, the result is the recognized texts
\* joined by single spaces and trimmed; the whole file is tried only when the
\* segmented pipeline raised, and the result is empty when that fails too
C21_ChunksInOrder ==
    ra_pc = "returned" =>
        IF PipelineRaised
        THEN /\ ra_out.whole_tried
             /\ ra_out.text = IF ra_whole.kind = "text" THEN ra_whole.text ELSE <<>>
        ELSE /\ ~ra_out.whole_tried
             /\ ra_out.order = [i \in 1..Len(ra_chunks) |-> i]
             /\ ra_out.text = Strip(Join(Recognized(ra_chunks), <<" ">>))

\* the first chunk was not understood and the second one was recognized
C21_Witness ==
    /\ ra_pc = "returned" /\ ra_split
    /\ Len(ra_chunks) = 2
    /\ ra_chunks[1].kind = "unknown"
    /\ ra_chunks[2] = Heard("text", <<" ", "c">>)
    /\ ra_out.text = <<"c">> /\ ~ra_out.whole_tried


\* the fixed windows are used: a long recording whose silence-based split gave
\* 0, 1 or more than 20 chunks
FixedWindowsCase ==
    /\ sa_done /\ sa_duration > SHORT_AUDIO
    /\ Len(sa_silence) \in {0, 1} \/ Len(sa_silence) > MAX_SILENCE_CHUNKS

\* the length of the last window
TrailingSlice == WindowLen(sa_duration, WindowCount(sa_duration))

\* C22: with the fixed windows, the number of chunks is ceil(duration /
\* chunk_length), minus one exactly when the trailing slice is shorter than
\* 1000 ms; a trailing slice of 1000 ms or more is kept
C22_TrailingSliceKept ==
    FixedWindowsCase =>
        /\ Len(sa_chunks) = IF TrailingSlice < MIN_CHUNK
                            THEN WindowCount(sa_duration) - 1
                            ELSE WindowCount(sa_duration)
        /\ \A j \in 1..Len(sa_chunks) : sa_chunks[j] = WindowLen(sa_duration, j)


\* ---------------------------------------------- claims about the handlers
\* the diagnostics of a return code that is not zero and of the timeout
TranscodeFailed(s) == sent[s].tag \in {"convert_failed", "convert_timeout"}

\* C23: when ffmpeg returns non-zero or runs out of time, the handler sends
\* one diagnostic and ends: nothing is recognized, the cache, the cooldown and
\* the request log are not touched, no analysis is made, and the next step of
\* the handler is its return
C23_TranscodeFatal ==
    [][\A s \in Slots :
         /\ pc[s] = "downloaded" /\ TranscodeFailed(s)' =>
               /\ pc'[s] = "done"
               /\ text'[s] = 0 /\ analysis'[s] = NoAnalysis
               /\ text_cache' = text_cache
               /\ last_ai_error' = last_ai_error
               /\ user_requests' = user_requests
               /\ files'[s] = files[s]
         /\ TranscodeFailed(s) =>
               /\ pc[s] = "done" /\ text[s] = 0 /\ analysis[s] = NoAnalysis
               /\ pc'[s] \in {"done", "idle"}
               /\ pc'[s] = "done" => sent'[s] = sent[s]
               /\ text_cache' = text_cache
               /\ DOMAIN last_ai_error' = DOMAIN last_ai_error
               /\ \A u \in Users : Len(user_requests'[u]) <= Len(user_requests[u])]_vars

\* the transcoding of a voice message timed out and the diagnostic was sent
C23_Witness ==
    /\ pc[1] = "done" /\ kind[1] = "voice"
    /\ sent[1] = Msg("convert_timeout", 27)
    /\ text[1] = 0 /\ analysis[1] = NoAnalysis


\* C24: the cache changes only in the step that follows a completion call that
\* returned, where the handler stores its own analysis; the step of the local
\* fallback and the step of a cache hit leave it as it is; a key leaves the
\* cache only as the oldest one, in a voice handler's store that made the cache
\* larger than its limit; so a text that was not cached when its completion
\* failed is not cached by the failure
C24_WrittenOnSuccessOnly ==
    [][/\ text_cache' # text_cache =>
             \E s \in Slots :
                /\ pc[s] = "ai" /\ pc'[s] = "idea_sent"
                /\ text[s] \in CacheKeys(text_cache')
                /\ CacheGet(text_cache', text[s]) = analysis'[s]
                /\ \A k \in CacheKeys(text_cache') \ {text[s]} :
                      /\ k \in CacheKeys(text_cache)
                      /\ CacheGet(text_cache', k) = CacheGet(text_cache, k)
       /\ ~(CacheKeys(text_cache) \subseteq CacheKeys(text_cache')) =>
             /\ CacheKeys(text_cache) \ CacheKeys(text_cache') = {text_cache[1].key}
             /\ Len(text_cache) >= CACHE_LIMIT
             /\ \E s \in Slots : kind[s] = "voice" /\ pc[s] = "ai"
                                 /\ text[s] \notin CacheKeys(text_cache)
       /\ \A s \in Slots :
             /\ LocalStep(s) =>
                   /\ text_cache' = text_cache
                   /\ text[s] \notin CacheKeys(text_cache) =>
                         text[s] \notin CacheKeys(text_cache')
             /\ pc'[s] = "notice" /\ sent'[s].tag = "cached" =>
                   text_cache' = text_cache /\ analysis'[s] = CacheGet(text_cache, text[s])
      ]_vars

\* the completion for text 1 failed before (nothing was ever stored, so text 1
\* was the only text asked) and a later request with text 1 missed the cache
C24_Witness ==
    /\ text_cache = <<>>
    /\ 1 \in DOMAIN last_ai_error
    /\ pc[1] = "ai" /\ text[1] = 1


\* the step is one of a handler, and no handler that takes it serves user u
StepOfOthers(u) ==
    /\ pc' # pc
    /\ \A s \in Slots : pc'[s] # pc[s] => user_id[s] # u /\ user_id'[s] # u

\* C25: a step of a handler that serves user A leaves the request log and the
\* cooldown of every other user B as they are, and with them the answer of
\* can_make_ai_request(B)
C25_UserIsolation ==
    [][\A B \in Users :
          StepOfOthers(B) =>
             /\ user_requests'[B] = user_requests[B]
             /\ (B \in DOMAIN last_ai_error') = (B \in DOMAIN last_ai_error)
             /\ B \in DOMAIN last_ai_error => last_ai_error'[B] = last_ai_error[B]
             /\ can_make_ai_request(B)' = can_make_ai_request(B)]_vars

\* user 1 made three requests and had a failure, and is blocked on both counts;
\* the first request of user 2 is admitted
C25_Witness ==
    /\ Len(user_requests[1]) = RATE_LIMIT
    /\ 1 \in DOMAIN last_ai_error /\ last_ai_error[1] < COOLDOWN
    /\ ~can_make_ai_request(1)
    /\ pc[1] = "ack" /\ user_id[1] = 2
    /\ user_requests[2] = <<0>> /\ 2 \notin DOMAIN last_ai_error


\* the gate turns the request of slot s down in this step
RejectStep(s) == pc[s] = "idle" /\ pc'[s] = "rejected"

\* the seconds until the gate admits a user with this request log and this
\* age of the last failure: the third newest active request has to leave the
\* window and the cooldown has to be over
BlockTime(log, error_age) ==
    LET active == Pruned(log)
        window == IF Len(active) >= RATE_LIMIT
                  THEN WINDOW - active[Len(active) - RATE_LIMIT + 1]
                  ELSE 0
        cooldown == COOLDOWN - error_age
    IN IF window > cooldown THEN window ELSE cooldown

AgeOf(err, u) == IF u \in DOMAIN err THEN err[u] ELSE COOLDOWN

\* C26: a request that the gate turns down leaves the request log with its
\* expired entries pruned and nothing appended, leaves the cooldown, the cache,
\* the files and the analysis alone, sends the advisory reply, and its handler
\* then only returns; the time the user stays blocked is what it was
C26_RejectedHasNoEffect ==
    [][\A s \in Slots :
          /\ RejectStep(s) =>
                LET u == user_id'[s] IN
                /\ user_requests' = [user_requests EXCEPT ![u] = Pruned(@)]
                /\ last_ai_error' = last_ai_error
                /\ text_cache' = text_cache
                /\ files' = files /\ analysis' = analysis
                /\ sent'[s] = Msg("too_many", 47)
                /\ BlockTime(user_requests'[u], AgeOf(last_ai_error', u))
                      = BlockTime(user_requests[u], AgeOf(last_ai_error, u))
                /\ BlockTime(user_requests[u], AgeOf(last_ai_error, u)) > 0
          /\ pc[s] = "rejected" /\ pc'[s] # "rejected" =>
                /\ pc'[s] = "idle"
                /\ user_requests' = user_requests /\ last_ai_error' = last_ai_error
                /\ text_cache' = text_cache /\ files' = files
      ]_vars

\* a request was turned down while three requests were active and a failure
\* is on record for the user
C26_Witness ==
    /\ pc[1] = "rejected" /\ sent[1] = Msg("too_many", 47)
    /\ Len(user_requests[1]) = RATE_LIMIT
    /\ 1 \in DOMAIN last_ai_error


\* the lookup of slot s finds the text in the cache
HitStep(s) == LookupStep(s) /\ text[s] \in CacheKeys(text_cache)

\* C27: the gate decides and records before the cache is looked at: a text
\* request whose text is cached is admitted exactly when the limiter allows
\* it and is then appended to the request log, the gate leaves the cache
\* alone, and the later hit in the cache gives the slot of the log not back
C27_GateBeforeCache ==
    [][\A s \in Slots :
          /\ GateStep(s) /\ kind'[s] = "text"
                /\ text'[s] \in CacheKeys(text_cache) =>
                LET u == user_id'[s] IN
                /\ pc'[s] = "rejected" <=> ~can_make_ai_request(u)
                /\ pc'[s] # "rejected" =>
                      user_requests'[u] = Append(Pruned(user_requests[u]), 0)
                /\ text_cache' = text_cache /\ analysis' = analysis
          /\ HitStep(s) =>
                /\ user_requests' = user_requests
                /\ text_cache' = text_cache
      ]_vars

\* a text request is turned down although its analysis is in the cache
C27_Witness ==
    /\ pc[1] = "rejected" /\ kind[1] = "text"
    /\ text[1] \in CacheKeys(text_cache)
    /\ ActiveCount(1) = RATE_LIMIT


\* the entries of the cache under the key k
EntriesFor(c, k) == {i \in 1..Len(c) : c[i].key = k}

\* the lookup of slot s does not find the text in the cache
MissStep(s) == LookupStep(s) /\ text[s] \notin CacheKeys(text_cache)

\* C28: nothing holds a handler back while another one is in flight for the
\* same text: a lookup that misses goes on to the completion call whatever the
\* other handlers do, a completion that returns is stored whether or not the
\* key was stored in between, and after the store the cache has exactly one
\* entry for the text, with the result of the handler that stored last; the
\* store and the eviction of the voice handler are one step
C28_LastWriterWins ==
    [][\A s \in Slots :
          /\ MissStep(s) => pc'[s] \in {"ai", "long_notice"}
          /\ StoreStep(s) =>
                /\ Cardinality(EntriesFor(text_cache', text[s])) = 1
                /\ CacheGet(text_cache', text[s]) = analysis'[s]
                /\ kind[s] = "voice" =>
                      text_cache' = EvictOldest(CacheSet(text_cache, text[s],
                                                         analysis'[s]))
      ]_vars

\* two handlers missed the same text, both completions returned, with
\* different results, and the cache has the one entry of the second
C28_Witness ==
    /\ text[1] = text[2]
    /\ pc[1] = "idea_sent" /\ pc[2] = "idea_sent"
    /\ analysis[1] # analysis[2]
    /\ {analysis[1], analysis[2]} \subseteq
          {parse_analysis_response(r) : r \in Responses}
    /\ Len(text_cache) = 1
    /\ text_cache[1] = [key |-> text[2], val |-> analysis[2]]

====
